---- MODULE Spec2Model ----
(***************************************************************************)
(* Model of internal/ui/config.go: the Configurator (skin resolution,      *)
(* render palette application, view configuration reload) and its two      *)
(* file watchers (CustomViewsWatcher, StylesWatcher).                      *)
(*                                                                         *)
(* Strings are modelled as sequences of tokens, so that concatenation      *)
(* (fmt.Sprintf, filepath.Join) is sequence concatenation and the empty    *)
(* string is << >>.                                                        *)
(***************************************************************************)
EXTENDS Integers, Sequences, FiniteSets, TLC

VARIABLES
    Config,      \* c.Config.K9s: CurrentCluster, Skin, manual skin
    Styles,      \* c.Styles (NilStyles when nil)
    CustomView,  \* c.CustomView (NilView when nil)
    BenchFile,   \* c.BenchFile
    skinFile,    \* c.skinFile
    render,      \* the eight package-level colours of package render
    disk,        \* outcome of loading each file: "ok", "notfound", "parse"
    loads,       \* the files Styles.Load was called on by the last RefreshStyles
    lastArgs,    \* arguments of the last RefreshStyles call (<< >> before any)
    watchers,    \* the watch sessions started so far
    queue,       \* callbacks handed to the synchronizer, not yet run
    op,          \* the operation performed by the last step
    ret          \* what that operation returned

vars == <<Config, Styles, CustomView, BenchFile, skinFile, render, disk,
          loads, lastArgs, watchers, queue, op, ret>>

----------------------------------------------------------------------------
(* Package config: constants and the Styles / CustomView capabilities.     *)

Empty == << >>

K9sHome == <<"home", "/">>

K9sDefaultSkin == <<"skin">>

K9sStylesFileExtensions == <<"yml", "yaml">>

K9sBench == <<"bench">>

K9sViewConfigFile == K9sHome \o <<"views", ".", "yml">>

\* The argument values the model draws from.
Contexts == {Empty, <<"prod">>}

ConfiguredSkins == {Empty, <<"dracula">>}

ManualSkins == {Empty, <<"neon">>}

Outcomes == {"ok", "notfound", "parse"}

\* fmt.Sprintf("%s.%s", skinName, extension) under filepath.Join(K9sHome(), _)
SkinPath(skinName, extension) == K9sHome \o skinName \o <<".", extension>>

\* fmt.Sprintf("%s_skin", context)
ContextSkin(context) == context \o <<"_skin">>

Extensions == {K9sStylesFileExtensions[i] : i \in DOMAIN K9sStylesFileExtensions}

SkinNames ==
    ((ManualSkins \cup ConfiguredSkins) \ {Empty})
        \cup {ContextSkin(x) : x \in Contexts \ {Empty}} \cup {K9sDefaultSkin}

SkinFiles == {SkinPath(n, e) : n \in SkinNames, e \in Extensions}

Files == SkinFiles \cup {K9sViewConfigFile}

\* The fields of Styles.Frame().Status read by updateStyles.
StatusFields == {"ModifyColor", "AddColor", "ErrorColor", "NewColor",
                 "PendingColor", "HighlightColor", "KillColor", "CompletedColor"}

\* A colour is identified by the style set it comes from and the field it fills.
StyleOf(src) == [nil |-> FALSE, Status |-> [f \in StatusFields |-> <<src, f>>]]

NilStyles == [nil |-> TRUE]

DefaultSrc == <<"default">>

\* config.NewStyles()
NewStyles == StyleOf(DefaultSrc)

\* (*Styles).Reset()
StylesReset(s) == StyleOf(DefaultSrc)

\* (*Styles).DefaultSkin()
DefaultSkin(s) == StyleOf(DefaultSrc)

\* (*Styles).Update(): notifies the listeners, the colours stay as they are.
StylesUpdate(s) == s

\* (*Styles).Load(path): success | NotFound | ParseError.
StylesLoad(s, d, path) ==
    IF d[path] = "ok"
    THEN [err |-> "nil", styles |-> StyleOf(path)]
    ELSE [err |-> d[path], styles |-> s]

\* The package-level colours of package render before any refresh.
RenderSrc == <<"render">>

RenderInit ==
    [ModColor |-> <<RenderSrc, "ModifyColor">>,
     AddColor |-> <<RenderSrc, "AddColor">>,
     ErrColor |-> <<RenderSrc, "ErrorColor">>,
     StdColor |-> <<RenderSrc, "NewColor">>,
     PendingColor |-> <<RenderSrc, "PendingColor">>,
     HighlightColor |-> <<RenderSrc, "HighlightColor">>,
     KillColor |-> <<RenderSrc, "KillColor">>,
     CompletedColor |-> <<RenderSrc, "CompletedColor">>]

----------------------------------------------------------------------------
(* The Configurator. Its methods are operators on a record c of the fields *)
(* they read and write: Styles, BenchFile, skinFile, render, loads.        *)

\* func (c *Configurator) HasSkin() bool
HasSkin(c) == c.skinFile # Empty

\* func BenchConfig(context string) string
BenchConfig(context) == K9sHome \o K9sBench \o <<"-">> \o context \o <<".yml">>

\* Mutant: the kill colour is not copied.
updateStylesSkipKill(c, f) ==
    LET c1 == [c EXCEPT !.skinFile = f]
        c2 == IF ~HasSkin(c1)
              THEN [c1 EXCEPT !.Styles = DefaultSkin(c1.Styles)] ELSE c1
        c3 == [c2 EXCEPT !.Styles = StylesUpdate(c2.Styles)]
        st == c3.Styles.Status
    IN  [c3 EXCEPT !.render =
            [ModColor |-> st.ModifyColor,
             AddColor |-> st.AddColor,
             ErrColor |-> st.ErrorColor,
             StdColor |-> st.NewColor,
             PendingColor |-> st.PendingColor,
             HighlightColor |-> st.HighlightColor,
             KillColor |-> c3.render.KillColor,
             CompletedColor |-> st.CompletedColor]]

\* Mutant: the fallback leaves the recorded skin file as it was.
updateStylesKeepFile(c, f) ==
    LET c1 == IF f = Empty THEN c ELSE [c EXCEPT !.skinFile = f]
        c2 == IF f = Empty
              THEN [c1 EXCEPT !.Styles = DefaultSkin(c1.Styles)] ELSE c1
        c3 == [c2 EXCEPT !.Styles = StylesUpdate(c2.Styles)]
        st == c3.Styles.Status
    IN  [c3 EXCEPT !.render =
            [ModColor |-> st.ModifyColor,
             AddColor |-> st.AddColor,
             ErrColor |-> st.ErrorColor,
             StdColor |-> st.NewColor,
             PendingColor |-> st.PendingColor,
             HighlightColor |-> st.HighlightColor,
             KillColor |-> st.KillColor,
             CompletedColor |-> st.CompletedColor]]

\* func (c *Configurator) updateStyles(f string)
updateStyles(c, f) ==
    LET c1 == [c EXCEPT !.skinFile = f]
        c2 == IF ~HasSkin(c1)
              THEN [c1 EXCEPT !.Styles = DefaultSkin(c1.Styles)] ELSE c1
        c3 == [c2 EXCEPT !.Styles = StylesUpdate(c2.Styles)]
        st == c3.Styles.Status
    IN  [c3 EXCEPT !.render =
            [ModColor |-> st.ModifyColor,
             AddColor |-> st.AddColor,
             ErrColor |-> st.ErrorColor,
             StdColor |-> st.NewColor,
             PendingColor |-> st.PendingColor,
             HighlightColor |-> st.HighlightColor,
             KillColor |-> st.KillColor,
             CompletedColor |-> st.CompletedColor]]

\* Mutant: a file that fails to parse ends the search, as if it had been applied.
loadSkinFileAbortOnParse(c, d, fileName) ==
    LET r  == StylesLoad(c.Styles, d, fileName)
        c1 == [c EXCEPT !.Styles = r.styles, !.loads = Append(@, fileName)]
    IN  IF r.err # "nil"
        THEN [ok |-> (r.err = "parse"), c |-> c1]
        ELSE [ok |-> TRUE, c |-> updateStyles(c1, fileName)]

\* func (c *Configurator) loadSkinFile(fileName string) bool
\* ok is the returned bool, c the Configurator afterwards.
loadSkinFile(c, d, fileName) ==
    LET r  == StylesLoad(c.Styles, d, fileName)
        c1 == [c EXCEPT !.Styles = r.styles, !.loads = Append(@, fileName)]
    IN  IF r.err # "nil"
        THEN [ok |-> FALSE, c |-> c1]
        ELSE [ok |-> TRUE, c |-> updateStyles(c1, fileName)]

\* The loop of updateStylesWithFile from the i-th extension on.
RECURSIVE ExtensionLoop(_, _, _, _)
ExtensionLoop(c, d, skinName, i) ==
    IF i > Len(K9sStylesFileExtensions)
    THEN [ok |-> FALSE, c |-> c]
    ELSE LET r == loadSkinFile(c, d, SkinPath(skinName, K9sStylesFileExtensions[i]))
         IN  IF r.ok THEN r ELSE ExtensionLoop(r.c, d, skinName, i + 1)

\* func (c *Configurator) updateStylesWithFile(skinName string) bool
updateStylesWithFile(c, d, skinName) == ExtensionLoop(c, d, skinName, 1)

\* Mutant: the configured skin is looked up before the context skin.
RefreshStylesConfiguredFirst(c, d, context, configuredStyle, manualStyle) ==
    LET c0 == [c EXCEPT !.BenchFile = BenchConfig(context),
                        !.Styles = IF c.Styles = NilStyles
                                   THEN NewStyles ELSE StylesReset(c.Styles),
                        !.loads = << >>]
        r1 == IF manualStyle # Empty
              THEN updateStylesWithFile(c0, d, manualStyle)
              ELSE [ok |-> FALSE, c |-> c0]
        r2 == IF configuredStyle # Empty
              THEN updateStylesWithFile(r1.c, d, configuredStyle)
              ELSE [ok |-> FALSE, c |-> r1.c]
        r3 == IF context # Empty
              THEN updateStylesWithFile(r2.c, d, ContextSkin(context))
              ELSE [ok |-> FALSE, c |-> r2.c]
        r4 == updateStylesWithFile(r3.c, d, K9sDefaultSkin)
    IN  IF r1.ok THEN r1.c
        ELSE IF r2.ok THEN r2.c
        ELSE IF r3.ok THEN r3.c
        ELSE IF r4.ok THEN r4.c
        ELSE updateStyles(r4.c, Empty)

\* Mutant: the benchmark file is recomputed only when no skin file is found.
RefreshStylesBenchOnFallback(c, d, context, configuredStyle, manualStyle) ==
    LET c0 == [c EXCEPT !.Styles = IF c.Styles = NilStyles
                                   THEN NewStyles ELSE StylesReset(c.Styles),
                        !.loads = << >>]
        r1 == IF manualStyle # Empty
              THEN updateStylesWithFile(c0, d, manualStyle)
              ELSE [ok |-> FALSE, c |-> c0]
        r2 == IF context # Empty
              THEN updateStylesWithFile(r1.c, d, ContextSkin(context))
              ELSE [ok |-> FALSE, c |-> r1.c]
        r3 == IF configuredStyle # Empty
              THEN updateStylesWithFile(r2.c, d, configuredStyle)
              ELSE [ok |-> FALSE, c |-> r2.c]
        r4 == updateStylesWithFile(r3.c, d, K9sDefaultSkin)
    IN  IF r1.ok THEN r1.c
        ELSE IF r2.ok THEN r2.c
        ELSE IF r3.ok THEN r3.c
        ELSE IF r4.ok THEN r4.c
        ELSE [updateStyles(r4.c, Empty) EXCEPT !.BenchFile = BenchConfig(context)]

\* func (c *Configurator) RefreshStyles(context, configuredStyle, manualStyle string)
RefreshStyles(c, d, context, configuredStyle, manualStyle) ==
    LET c0 == [c EXCEPT !.BenchFile = BenchConfig(context),
                        !.Styles = IF c.Styles = NilStyles
                                   THEN NewStyles ELSE StylesReset(c.Styles),
                        !.loads = << >>]
        r1 == IF manualStyle # Empty
              THEN updateStylesWithFile(c0, d, manualStyle)
              ELSE [ok |-> FALSE, c |-> c0]
        r2 == IF context # Empty
              THEN updateStylesWithFile(r1.c, d, ContextSkin(context))
              ELSE [ok |-> FALSE, c |-> r1.c]
        r3 == IF configuredStyle # Empty
              THEN updateStylesWithFile(r2.c, d, configuredStyle)
              ELSE [ok |-> FALSE, c |-> r2.c]
        r4 == updateStylesWithFile(r3.c, d, K9sDefaultSkin)
    IN  IF r1.ok THEN r1.c
        ELSE IF r2.ok THEN r2.c
        ELSE IF r3.ok THEN r3.c
        ELSE IF r4.ok THEN r4.c
        ELSE updateStyles(r4.c, Empty)

\* The Configurator fields RefreshStyles works on, as a record, and back.
Cfg == [Styles |-> Styles, BenchFile |-> BenchFile, skinFile |-> skinFile,
        render |-> render, loads |-> loads]

SetCfg(c) ==
    /\ Styles' = c.Styles
    /\ BenchFile' = c.BenchFile
    /\ skinFile' = c.skinFile
    /\ render' = c.render
    /\ loads' = c.loads

NilView == <<"nil">>

\* config.NewCustomView()
NewCustomView == <<"empty">>

\* (*CustomView).Reset()
CustomViewReset(v) == <<"empty">>

\* (*CustomView).Load(path): success | NotFound | ParseError.
CustomViewLoad(v, d, path) ==
    IF d[path] = "ok"
    THEN [err |-> "nil", view |-> <<"loaded", path>>]
    ELSE [err |-> d[path], view |-> v]

\* Mutant: a failed load drops the view configuration.
RefreshCustomViewsNilOnFailure(v, d) ==
    LET v0 == IF v = NilView THEN NewCustomView ELSE CustomViewReset(v)
        r  == CustomViewLoad(v0, d, K9sViewConfigFile)
    IN  IF r.err # "nil" THEN NilView ELSE r.view

\* Mutant: an existing view configuration is loaded into without a reset.
RefreshCustomViewsNoReset(v, d) ==
    LET v0 == IF v = NilView THEN NewCustomView ELSE v
    IN  CustomViewLoad(v0, d, K9sViewConfigFile).view

\* func (c *Configurator) RefreshCustomViews()
RefreshCustomViews(v, d) ==
    LET v0 == IF v = NilView THEN NewCustomView ELSE CustomViewReset(v)
    IN  CustomViewLoad(v0, d, K9sViewConfigFile).view

----------------------------------------------------------------------------
(* The watch sessions: the fsnotify watcher, the loop goroutine and the    *)
(* context of each call of CustomViewsWatcher or StylesWatcher.            *)

\* The sessions a run may start.
Sessions == {1}

\* Callbacks the synchronizer holds before QueueUpdateDraw blocks.
MaxQueue == 1

\* fsnotify.Op is a bit mask, modelled as the set of its flags.
Chmod == {"Chmod"}

EventOps == {{"Write"}, Chmod, {"Write", "Chmod"}}

\* w.Events is unbuffered: it offers at most one event, or none.
NoEvent == {}

NoWatcher ==
    [kind |-> "none",        \* "views" or "skin" once started
     loop |-> "none",        \* the goroutine: "running" or "stopped"
     adapter |-> "none",     \* the fsnotify watcher: "open" or "closed"
     path |-> Empty,         \* the path w.Add registered
     event |-> NoEvent,      \* the event w.Events offers
     error |-> FALSE,        \* an error is waiting on w.Errors
     done |-> FALSE,         \* ctx.Done() is closed
     closes |-> 0,           \* calls of w.Close()
     liveAtCancel |-> FALSE] \* the session was watching when ctx was cancelled

\* Load outcomes of the files on disk the watcher model runs over.
DiskWith(oks, bad) ==
    [f \in Files |-> IF f \in oks THEN "ok"
                     ELSE IF f \in bad THEN "parse" ELSE "notfound"]

DiskSamples ==
    {DiskWith({K9sViewConfigFile}, {}),
     DiskWith({SkinPath(<<"prod", "_skin">>, "yaml"), SkinPath(<<"dracula">>, "yml"),
               SkinPath(<<"neon">>, "yml"), K9sViewConfigFile},
              {SkinPath(K9sDefaultSkin, "yml")}),
     DiskWith({SkinPath(K9sDefaultSkin, "yaml")},
              {SkinPath(<<"dracula">>, "yml"), K9sViewConfigFile})}

----------------------------------------------------------------------------
(* Operations.                                                             *)

\* A direct call of RefreshStyles by the application.
RefreshStylesCall ==
    \E context \in Contexts, configuredStyle \in ConfiguredSkins,
       manualStyle \in ManualSkins :
        /\ SetCfg(RefreshStyles(Cfg, disk, context, configuredStyle, manualStyle))
        /\ lastArgs' = <<context, configuredStyle, manualStyle>>
        /\ op' = [name |-> "RefreshStyles", w |-> 0]
        /\ ret' = [val |-> "none", evt |-> {}]
        /\ UNCHANGED <<Config, CustomView, disk, watchers, queue>>

\* The application's call of RefreshStyles with the configured values.
RefreshStylesFromConfig ==
    /\ SetCfg(RefreshStyles(Cfg, disk, Config.CurrentCluster, Config.Skin,
                            Config.ManualSkin))
    /\ lastArgs' = <<Config.CurrentCluster, Config.Skin, Config.ManualSkin>>
    /\ op' = [name |-> "RefreshStyles", w |-> 0]
    /\ ret' = [val |-> "none", evt |-> {}]
    /\ UNCHANGED <<Config, CustomView, disk, watchers, queue>>

\* A call of HasSkin.
HasSkinCall ==
    /\ op' = [name |-> "HasSkin", w |-> 0]
    /\ ret' = [val |-> IF HasSkin(Cfg) THEN "true" ELSE "false", evt |-> {}]
    /\ UNCHANGED <<Config, Styles, CustomView, BenchFile, skinFile, render,
                   disk, loads, lastArgs, watchers, queue>>

\* A direct call of RefreshCustomViews by the application.
RefreshCustomViewsCall ==
    /\ CustomView' = RefreshCustomViews(CustomView, disk)
    /\ op' = [name |-> "RefreshCustomViews", w |-> 0]
    /\ ret' = [val |-> "none", evt |-> {}]
    /\ UNCHANGED <<Config, Styles, BenchFile, skinFile, render, disk, loads,
                   lastArgs, watchers, queue>>

\* The session slot a start operation fills: the first unused one.
Free(i) ==
    /\ watchers[i].kind = "none"
    /\ \A j \in DOMAIN watchers : j < i => watchers[j].kind # "none"

\* The session after `go func() {...}()`: the adapter open, the loop waiting.
Spawned(kind) ==
    [NoWatcher EXCEPT !.kind = kind, !.loop = "running", !.adapter = "open"]

\* Mutant: the views are reloaded before the watcher is created.
CustomViewsWatcherRefreshFirst(i) ==
    /\ Free(i)
    /\ \E newErr \in BOOLEAN, addErr \in BOOLEAN :
        /\ newErr => ~addErr
        /\ (~newErr /\ disk[K9sViewConfigFile] = "notfound") => addErr
        /\ CustomView' = RefreshCustomViews(CustomView, disk)
        /\ IF newErr
           THEN /\ ret' = [val |-> "err:new", evt |-> {}]
                /\ UNCHANGED watchers
           ELSE /\ watchers' = [watchers EXCEPT ![i] =
                       [Spawned("views") EXCEPT
                           !.path = IF addErr THEN Empty ELSE K9sViewConfigFile]]
                /\ ret' = [val |-> IF addErr THEN "err:add" ELSE "nil", evt |-> {}]
    /\ op' = [name |-> "CustomViewsWatcher", w |-> i]
    /\ UNCHANGED <<Config, Styles, BenchFile, skinFile, render, disk, loads,
                   lastArgs, queue>>

\* func (c *Configurator) CustomViewsWatcher(ctx, s) error
CustomViewsWatcher(i) ==
    /\ Free(i)
    /\ \E newErr \in BOOLEAN, addErr \in BOOLEAN :
        /\ newErr => ~addErr
        /\ (~newErr /\ disk[K9sViewConfigFile] = "notfound") => addErr
        /\ IF newErr
           THEN /\ ret' = [val |-> "err:new", evt |-> {}]
                /\ UNCHANGED <<watchers, CustomView>>
           ELSE /\ watchers' = [watchers EXCEPT ![i] =
                       [Spawned("views") EXCEPT
                           !.path = IF addErr THEN Empty ELSE K9sViewConfigFile]]
                /\ CustomView' = RefreshCustomViews(CustomView, disk)
                /\ ret' = [val |-> IF addErr THEN "err:add" ELSE "nil", evt |-> {}]
    /\ op' = [name |-> "CustomViewsWatcher", w |-> i]
    /\ UNCHANGED <<Config, Styles, BenchFile, skinFile, render, disk, loads,
                   lastArgs, queue>>

\* Mutant: the skin watcher reloads the styles itself when it starts.
StylesWatcherRefreshes(i) ==
    /\ Free(i)
    /\ IF ~HasSkin(Cfg)
       THEN /\ ret' = [val |-> "nil", evt |-> {}]
            /\ UNCHANGED <<watchers, Styles, BenchFile, skinFile, render, loads,
                           lastArgs>>
       ELSE \E newErr \in BOOLEAN, addErr \in BOOLEAN :
            /\ newErr => ~addErr
            /\ (~newErr /\ disk[skinFile] = "notfound") => addErr
            /\ IF newErr
               THEN /\ ret' = [val |-> "err:new", evt |-> {}]
                    /\ UNCHANGED <<watchers, Styles, BenchFile, skinFile, render,
                                   loads, lastArgs>>
               ELSE /\ watchers' = [watchers EXCEPT ![i] =
                           [Spawned("skin") EXCEPT
                               !.path = IF addErr THEN Empty ELSE skinFile]]
                    /\ SetCfg(RefreshStyles(Cfg, disk, Config.CurrentCluster,
                                            Config.Skin, Config.ManualSkin))
                    /\ lastArgs' = <<Config.CurrentCluster, Config.Skin,
                                     Config.ManualSkin>>
                    /\ ret' = [val |-> IF addErr THEN "err:add" ELSE "nil",
                               evt |-> {}]
    /\ op' = [name |-> "StylesWatcher", w |-> i]
    /\ UNCHANGED <<Config, CustomView, disk, queue>>

\* Mutant: the watcher is set up whether or not a skin file is recorded.
StylesWatcherNoGuard(i) ==
    /\ Free(i)
    /\ \E newErr \in BOOLEAN, addErr \in BOOLEAN :
        /\ newErr => ~addErr
        /\ (~newErr /\ (skinFile = Empty \/ disk[skinFile] = "notfound")) => addErr
        /\ IF newErr
           THEN /\ ret' = [val |-> "err:new", evt |-> {}]
                /\ UNCHANGED watchers
           ELSE /\ watchers' = [watchers EXCEPT ![i] =
                       [Spawned("skin") EXCEPT
                           !.path = IF addErr THEN Empty ELSE skinFile]]
                /\ ret' = [val |-> IF addErr THEN "err:add" ELSE "nil",
                           evt |-> {}]
    /\ op' = [name |-> "StylesWatcher", w |-> i]
    /\ UNCHANGED <<Config, Styles, CustomView, BenchFile, skinFile, render,
                   disk, loads, lastArgs, queue>>

\* func (c *Configurator) StylesWatcher(ctx, s) error
StylesWatcher(i) ==
    /\ Free(i)
    /\ IF ~HasSkin(Cfg)
       THEN /\ ret' = [val |-> "nil", evt |-> {}]
            /\ UNCHANGED watchers
       ELSE \E newErr \in BOOLEAN, addErr \in BOOLEAN :
            /\ newErr => ~addErr
            /\ (~newErr /\ disk[skinFile] = "notfound") => addErr
            /\ IF newErr
               THEN /\ ret' = [val |-> "err:new", evt |-> {}]
                    /\ UNCHANGED watchers
               ELSE /\ watchers' = [watchers EXCEPT ![i] =
                           [Spawned("skin") EXCEPT
                               !.path = IF addErr THEN Empty ELSE skinFile]]
                    /\ ret' = [val |-> IF addErr THEN "err:add" ELSE "nil",
                               evt |-> {}]
    /\ op' = [name |-> "StylesWatcher", w |-> i]
    /\ UNCHANGED <<Config, Styles, CustomView, BenchFile, skinFile, render,
                   disk, loads, lastArgs, queue>>

\* Mutant: the views loop reloads on its own goroutine.
ViewsLoopEventInline(i) ==
    /\ watchers[i].kind = "views"
    /\ watchers[i].loop = "running"
    /\ watchers[i].event # NoEvent
    /\ watchers' = [watchers EXCEPT ![i].event = NoEvent]
    /\ CustomView' = RefreshCustomViews(CustomView, disk)
    /\ op' = [name |-> "ViewsLoopEvent", w |-> i]
    /\ ret' = [val |-> "reloaded", evt |-> watchers[i].event]
    /\ UNCHANGED <<Config, Styles, BenchFile, skinFile, render, disk, loads,
                   lastArgs, queue>>

\* case evt := <-w.Events of the views loop: s.QueueUpdateDraw(...)
ViewsLoopEvent(i) ==
    /\ watchers[i].kind = "views"
    /\ watchers[i].loop = "running"
    /\ watchers[i].event # NoEvent
    /\ Len(queue) < MaxQueue
    /\ watchers' = [watchers EXCEPT ![i].event = NoEvent]
    /\ queue' = Append(queue, "views")
    /\ op' = [name |-> "ViewsLoopEvent", w |-> i]
    /\ ret' = [val |-> "scheduled", evt |-> watchers[i].event]
    /\ UNCHANGED <<Config, Styles, CustomView, BenchFile, skinFile, render,
                   disk, loads, lastArgs>>

\* Mutant: a chmod flag anywhere in the mask filters the event out.
SkinEventReloadsNoChmodFlag(evt) == "Chmod" \notin evt

\* if evt.Op != fsnotify.Chmod
SkinEventReloads(evt) == evt # Chmod

\* Mutant: the skin loop reloads on its own goroutine.
StylesLoopEventInline(i) ==
    /\ watchers[i].kind = "skin"
    /\ watchers[i].loop = "running"
    /\ watchers[i].event # NoEvent
    /\ watchers' = [watchers EXCEPT ![i].event = NoEvent]
    /\ IF SkinEventReloads(watchers[i].event)
       THEN /\ SetCfg(RefreshStyles(Cfg, disk, Config.CurrentCluster,
                                    Config.Skin, Config.ManualSkin))
            /\ lastArgs' = <<Config.CurrentCluster, Config.Skin, Config.ManualSkin>>
       ELSE UNCHANGED <<Styles, BenchFile, skinFile, render, loads, lastArgs>>
    /\ op' = [name |-> "StylesLoopEvent", w |-> i]
    /\ ret' = [val |-> "reloaded", evt |-> watchers[i].event]
    /\ UNCHANGED <<Config, CustomView, disk, queue>>

\* case evt := <-w.Events of the skin loop
StylesLoopEvent(i) ==
    /\ watchers[i].kind = "skin"
    /\ watchers[i].loop = "running"
    /\ watchers[i].event # NoEvent
    /\ LET evt == watchers[i].event
       IN  IF SkinEventReloads(evt)
           THEN /\ Len(queue) < MaxQueue
                /\ queue' = Append(queue, "skin")
                /\ ret' = [val |-> "scheduled", evt |-> evt]
           ELSE /\ queue' = queue
                /\ ret' = [val |-> "filtered", evt |-> evt]
    /\ watchers' = [watchers EXCEPT ![i].event = NoEvent]
    /\ op' = [name |-> "StylesLoopEvent", w |-> i]
    /\ UNCHANGED <<Config, Styles, CustomView, BenchFile, skinFile, render,
                   disk, loads, lastArgs>>

\* Mutant: the loop logs the error and goes on waiting.
LoopErrorContinue(i) ==
    /\ watchers[i].loop = "running"
    /\ watchers[i].error
    /\ watchers' = [watchers EXCEPT ![i].error = FALSE]
    /\ op' = [name |-> "LoopError", w |-> i]
    /\ ret' = [val |-> "none", evt |-> {}]
    /\ UNCHANGED <<Config, Styles, CustomView, BenchFile, skinFile, render,
                   disk, loads, lastArgs, queue>>

\* case err := <-w.Errors of either loop: log and return.
LoopError(i) ==
    /\ watchers[i].loop = "running"
    /\ watchers[i].error
    /\ watchers' = [watchers EXCEPT ![i].error = FALSE, ![i].loop = "stopped"]
    /\ op' = [name |-> "LoopError", w |-> i]
    /\ ret' = [val |-> "none", evt |-> {}]
    /\ UNCHANGED <<Config, Styles, CustomView, BenchFile, skinFile, render,
                   disk, loads, lastArgs, queue>>

\* case <-ctx.Done() of either loop: w.Close(), log its error if any, return.
LoopCancel(i) ==
    /\ watchers[i].loop = "running"
    /\ watchers[i].done
    /\ \E closeErr \in BOOLEAN :
        /\ watchers' = [watchers EXCEPT ![i].adapter = "closed",
                                        ![i].closes = @ + 1,
                                        ![i].loop = "stopped"]
        /\ ret' = [val |-> IF closeErr THEN "logged:close" ELSE "none", evt |-> {}]
    /\ op' = [name |-> "LoopCancel", w |-> i]
    /\ UNCHANGED <<Config, Styles, CustomView, BenchFile, skinFile, render,
                   disk, loads, lastArgs, queue>>

\* The synchronizer runs the oldest queued callback on the update cycle.
UpdateCycle ==
    /\ queue # << >>
    /\ queue' = Tail(queue)
    /\ IF Head(queue) = "views"
       THEN /\ CustomView' = RefreshCustomViews(CustomView, disk)
            /\ UNCHANGED <<Styles, BenchFile, skinFile, render, loads, lastArgs>>
       ELSE /\ SetCfg(RefreshStyles(Cfg, disk, Config.CurrentCluster,
                                    Config.Skin, Config.ManualSkin))
            /\ lastArgs' = <<Config.CurrentCluster, Config.Skin, Config.ManualSkin>>
            /\ UNCHANGED CustomView
    /\ op' = [name |-> "UpdateCycle", w |-> 0]
    /\ ret' = [val |-> Head(queue), evt |-> {}]
    /\ UNCHANGED <<Config, disk, watchers>>

\* The caller cancels the context of a session.
Cancel(i) ==
    /\ watchers[i].kind # "none"
    /\ ~watchers[i].done
    /\ watchers' = [watchers EXCEPT
            ![i].done = TRUE,
            ![i].liveAtCancel = (watchers[i].loop = "running"
                                    /\ watchers[i].path # Empty)]
    /\ op' = [name |-> "Cancel", w |-> i]
    /\ ret' = [val |-> "none", evt |-> {}]
    /\ UNCHANGED <<Config, Styles, CustomView, BenchFile, skinFile, render,
                   disk, loads, lastArgs, queue>>

\* The adapter delivers a change event for the registered path.
EmitEvent(i) ==
    /\ watchers[i].adapter = "open"
    /\ watchers[i].path # Empty
    /\ watchers[i].event = NoEvent
    /\ \E evt \in EventOps :
        /\ watchers' = [watchers EXCEPT ![i].event = evt]
        /\ ret' = [val |-> "none", evt |-> evt]
    /\ op' = [name |-> "EmitEvent", w |-> i]
    /\ UNCHANGED <<Config, Styles, CustomView, BenchFile, skinFile, render,
                   disk, loads, lastArgs, queue>>

\* The adapter reports an error.
EmitError(i) ==
    /\ watchers[i].adapter = "open"
    /\ ~watchers[i].error
    /\ watchers' = [watchers EXCEPT ![i].error = TRUE]
    /\ op' = [name |-> "EmitError", w |-> i]
    /\ ret' = [val |-> "none", evt |-> {}]
    /\ UNCHANGED <<Config, Styles, CustomView, BenchFile, skinFile, render,
                   disk, loads, lastArgs, queue>>

\* The files on disk change.
DiskChange ==
    /\ \E d \in DiskSamples : d # disk /\ disk' = d
    /\ op' = [name |-> "DiskChange", w |-> 0]
    /\ ret' = [val |-> "none", evt |-> {}]
    /\ UNCHANGED <<Config, Styles, CustomView, BenchFile, skinFile, render,
                   loads, lastArgs, watchers, queue>>

InitConfigurator ==
    /\ Styles = NilStyles
    /\ CustomView = NilView
    /\ BenchFile = Empty
    /\ skinFile = Empty
    /\ render = RenderInit
    /\ loads = << >>
    /\ lastArgs = << >>
    /\ watchers = [i \in Sessions |-> NoWatcher]
    /\ queue = << >>
    /\ op = [name |-> "init", w |-> 0]
    /\ ret = [val |-> "none", evt |-> {}]

\* Skin resolution over every assignment of load outcomes to the candidates.
InitResolve ==
    /\ InitConfigurator
    /\ Config = [CurrentCluster |-> Empty, Skin |-> Empty, ManualSkin |-> Empty]
    /\ disk \in [Files -> Outcomes]
    /\ disk[K9sViewConfigFile] = "ok"

NextResolve == RefreshStylesCall \/ HasSkinCall

SpecResolve == InitResolve /\ [][NextResolve]_vars

\* The watchers, the synchronizer and the application's calls.
Init ==
    /\ InitConfigurator
    /\ Config = [CurrentCluster |-> <<"prod">>, Skin |-> <<"dracula">>,
                 ManualSkin |-> Empty]
    /\ disk \in DiskSamples

Next ==
    \/ RefreshStylesFromConfig
    \/ HasSkinCall
    \/ RefreshCustomViewsCall
    \/ \E i \in DOMAIN watchers : CustomViewsWatcher(i)
    \/ \E i \in DOMAIN watchers : StylesWatcher(i)
    \/ \E i \in DOMAIN watchers : ViewsLoopEvent(i)
    \/ \E i \in DOMAIN watchers : StylesLoopEvent(i)
    \/ \E i \in DOMAIN watchers : LoopError(i)
    \/ \E i \in DOMAIN watchers : LoopCancel(i)
    \/ \E i \in DOMAIN watchers : Cancel(i)
    \/ \E i \in DOMAIN watchers : EmitEvent(i)
    \/ \E i \in DOMAIN watchers : EmitError(i)
    \/ UpdateCycle
    \/ DiskChange

Spec == Init /\ [][Next]_vars

\* Two start operations in one run, on a disk that holds a skin and the views.
PairDisk ==
    DiskWith({SkinPath(K9sDefaultSkin, "yml"), K9sViewConfigFile}, {})

InitPair ==
    /\ Styles = NilStyles
    /\ CustomView = NilView
    /\ BenchFile = Empty
    /\ skinFile = Empty
    /\ render = RenderInit
    /\ loads = << >>
    /\ lastArgs = << >>
    /\ watchers = [i \in {1, 2} |-> NoWatcher]
    /\ queue = << >>
    /\ op = [name |-> "init", w |-> 0]
    /\ ret = [val |-> "none", evt |-> {}]
    /\ Config = [CurrentCluster |-> <<"prod">>, Skin |-> <<"dracula">>,
                 ManualSkin |-> Empty]
    /\ disk = PairDisk

NextPair ==
    \/ RefreshStylesFromConfig
    \/ \E i \in DOMAIN watchers : CustomViewsWatcher(i)
    \/ \E i \in DOMAIN watchers : StylesWatcher(i)
    \/ \E i \in DOMAIN watchers : ViewsLoopEvent(i)
    \/ \E i \in DOMAIN watchers : StylesLoopEvent(i)
    \/ \E i \in DOMAIN watchers : LoopError(i)
    \/ \E i \in DOMAIN watchers : LoopCancel(i)
    \/ \E i \in DOMAIN watchers : Cancel(i)
    \/ \E i \in DOMAIN watchers : EmitEvent(i)
    \/ \E i \in DOMAIN watchers : EmitError(i)
    \/ UpdateCycle

SpecPair == InitPair /\ [][NextPair]_vars

\* The loop goroutine is scheduled, and select takes a case that stays ready.
FairSpec ==
    /\ Spec
    /\ \A i \in Sessions : WF_vars(LoopError(i)) /\ WF_vars(LoopCancel(i))

----------------------------------------------------------------------------
(* The documented resolution order, stated independently of the code.      *)

\* The candidate names of a call, in the documented step order.
CandidateNames(args) ==
    (IF args[3] # Empty THEN <<args[3]>> ELSE << >>)
        \o (IF args[1] # Empty THEN <<ContextSkin(args[1])>> ELSE << >>)
        \o (IF args[2] # Empty THEN <<args[2]>> ELSE << >>)
        \o <<K9sDefaultSkin>>

NExt == Len(K9sStylesFileExtensions)

\* Every extension of the first name, then every extension of the next, ...
CandidateList(args) ==
    LET names == CandidateNames(args)
    IN  [i \in 1..(Len(names) * NExt) |->
            SkinPath(names[((i - 1) \div NExt) + 1],
                     K9sStylesFileExtensions[((i - 1) % NExt) + 1])]

\* Index of the first candidate that loads, 0 when none does.
FirstOk(list, d) ==
    IF \E i \in DOMAIN list : d[list[i]] = "ok"
    THEN CHOOSE i \in DOMAIN list :
            /\ d[list[i]] = "ok"
            /\ \A j \in 1..(i - 1) : d[list[j]] # "ok"
    ELSE 0

Refreshed == lastArgs # << >>

LastRefreshLoaded == Refreshed /\ FirstOk(CandidateList(lastArgs), disk) # 0

\* The file the last refresh should have resolved (Empty: none).
ResolvedPath ==
    LET L == CandidateList(lastArgs)
        k == FirstOk(L, disk)
    IN  IF k = 0 THEN Empty ELSE L[k]

\* C1: RefreshStyles loads the candidates in the order manual name, context
\* skin, configured name, default name, each with every extension in list
\* order, stops at the first candidate that loads, and records exactly that
\* candidate as the active skin file.
C1_ResolutionOrder ==
    Refreshed =>
        LET L == CandidateList(lastArgs)
            k == FirstOk(L, disk)
        IN  /\ loads = IF k = 0 THEN L ELSE SubSeq(L, 1, k)
            /\ skinFile = IF k = 0 THEN Empty ELSE L[k]

\* C1 witness: context prod, configured dracula, no manual skin, the context
\* skin loadable under the second extension only, dracula and the default
\* loadable too, and the context skin's second extension is the active file.
C1_Witness ==
    /\ lastArgs = <<(<<"prod">>), (<<"dracula">>), Empty>>
    /\ disk[SkinPath(<<"prod", "_skin">>, "yml")] # "ok"
    /\ disk[SkinPath(<<"prod", "_skin">>, "yaml")] = "ok"
    /\ disk[SkinPath(<<"dracula">>, "yml")] = "ok"
    /\ disk[SkinPath(K9sDefaultSkin, "yml")] = "ok"
    /\ skinFile = SkinPath(<<"prod", "_skin">>, "yaml")
    /\ loads = <<SkinPath(<<"prod", "_skin">>, "yml"),
                 SkinPath(<<"prod", "_skin">>, "yaml")>>

\* The disk with every ParseError turned into NotFound.
Demote(d) == [f \in DOMAIN d |-> IF d[f] = "parse" THEN "notfound" ELSE d[f]]

\* A Configurator before any refresh.
FreshCfg == [Styles |-> NilStyles, BenchFile |-> Empty, skinFile |-> Empty,
             render |-> RenderInit, loads |-> << >>]

\* C2: a ParseError never aborts resolution: the active skin file after
\* RefreshStyles (or its absence) is the one the same call records when
\* every candidate that fails to parse is missing instead.
C2_ParseErrorIsSkipped ==
    Refreshed =>
        LET c == RefreshStyles(FreshCfg, Demote(disk),
                               lastArgs[1], lastArgs[2], lastArgs[3])
        IN  /\ skinFile = c.skinFile
            /\ HasSkin(Cfg) = HasSkin(c)

\* C2 witness: a candidate failed to parse and a later candidate was loaded.
C2_Witness ==
    /\ Refreshed
    /\ skinFile # Empty
    /\ Len(loads) > 1
    /\ disk[loads[1]] = "parse"
    /\ skinFile = loads[Len(loads)]

\* The palette that holds the colours of the style set src.
PaletteOf(src) ==
    [ModColor |-> <<src, "ModifyColor">>,
     AddColor |-> <<src, "AddColor">>,
     ErrColor |-> <<src, "ErrorColor">>,
     StdColor |-> <<src, "NewColor">>,
     PendingColor |-> <<src, "PendingColor">>,
     HighlightColor |-> <<src, "HighlightColor">>,
     KillColor |-> <<src, "KillColor">>,
     CompletedColor |-> <<src, "CompletedColor">>]

\* C3: after every RefreshStyles all eight palette slots hold the colours of
\* the style set that call resolved: the first candidate that loads, or the
\* built-in default when none does.
C3_PaletteIsResolvedStyle ==
    Refreshed =>
        render = PaletteOf(IF ResolvedPath = Empty THEN DefaultSrc ELSE ResolvedPath)

\* C3 witness: every candidate of the last refresh failed, one of them with
\* a ParseError, and the palette holds the built-in default colours.
C3_Witness ==
    /\ Refreshed
    /\ ~LastRefreshLoaded
    /\ \E i \in DOMAIN loads : disk[loads[i]] = "parse"
    /\ render = PaletteOf(DefaultSrc)
    /\ render # RenderInit

cfgVars == <<Config, Styles, CustomView, BenchFile, skinFile, render, disk,
             loads, lastArgs, watchers, queue>>

HasSkinAgrees ==
    /\ HasSkin(Cfg) <=> LastRefreshLoaded
    /\ op.name = "HasSkin" => ret.val = IF LastRefreshLoaded THEN "true" ELSE "false"

\* C4: HasSkin is true exactly when the most recent RefreshStyles loaded a
\* candidate (false before any refresh and after a refresh in which every
\* candidate failed), and a call of HasSkin changes no state.
C4_HasSkinIffLastRefreshLoaded ==
    /\ []HasSkinAgrees
    /\ [][op'.name = "HasSkin" => UNCHANGED cfgVars]_vars

\* C4 witness: HasSkin answered false after a refresh in which every
\* candidate failed, while a skin file of another name does load.
C4_Witness ==
    /\ op.name = "HasSkin"
    /\ ret.val = "false"
    /\ Refreshed
    /\ \E f \in SkinFiles : disk[f] = "ok"

----------------------------------------------------------------------------
(* The watch loops.                                                        *)

LoopEventOps == {"ViewsLoopEvent", "StylesLoopEvent"}

LoopOps == LoopEventOps \cup {"LoopError", "LoopCancel"}

WatchOps == LoopOps \cup {"CustomViewsWatcher", "StylesWatcher", "UpdateCycle"}

\* C5: once the context of a session is cancelled, its loop hands no further
\* reload callback to the synchronizer, whichever ready case the select takes.
C5_NoReloadAfterCancel ==
    [][\A i \in DOMAIN watchers :
          (watchers[i].done /\ op'.w = i /\ op'.name \in LoopEventOps)
              => queue' = queue]_vars

\* C6: a session that was watching when its context was cancelled and whose
\* loop has terminated has had its adapter closed exactly once.
C6_CancelClosesExactlyOnce ==
    \A i \in DOMAIN watchers :
        (watchers[i].liveAtCancel /\ watchers[i].loop = "stopped")
            => watchers[i].closes = 1

Mutates ==
    \/ CustomView' # CustomView
    \/ Styles' # Styles
    \/ render' # render

C8_SkinEventSchedulesOnce ==
    [][/\ \A i \in DOMAIN watchers :
            (op'.name = "StylesLoopEvent" /\ op'.w = i) =>
                /\ watchers[i].event # NoEvent
                /\ watchers'[i].event = NoEvent
                /\ queue' = IF watchers[i].event = {"Chmod"}
                            THEN queue ELSE Append(queue, "skin")
                /\ UNCHANGED <<Styles, CustomView, BenchFile, skinFile, render>>
       /\ (Len(queue') > Len(queue) /\ queue'[Len(queue')] = "skin")
            => op'.name = "StylesLoopEvent"]_vars

\* C8 witness: the skin loop received an event whose mask holds a write and
\* a chmod, and one skin callback is queued.
C8_Witness ==
    /\ op.name = "StylesLoopEvent"
    /\ ret.val = "scheduled"
    /\ ret.evt = {"Write", "Chmod"}
    /\ queue = <<"skin">>

\* C9: a loop with an adapter error waiting terminates; a terminated loop
\* stays terminated, the session is never started again on its own, and no
\* step of that session hands the synchronizer a callback any more.
C9_ErrorStopsForGood ==
    /\ \A i \in Sessions :
          (watchers[i].loop = "running" /\ watchers[i].error)
              ~> (watchers[i].loop = "stopped")
    /\ [][\A i \in DOMAIN watchers :
          /\ (op'.name = "LoopError" /\ op'.w = i) =>
                /\ watchers[i].error
                /\ watchers'[i].loop = "stopped"
          /\ watchers[i].loop = "stopped" =>
                /\ watchers'[i].loop = "stopped"
                /\ watchers'[i].kind = watchers[i].kind
                /\ ~(op'.w = i /\ op'.name \in LoopOps)
                /\ (op'.w = i => queue' = queue)]_vars

\* C9 witness: a loop stopped on an adapter error (never cancelled, adapter
\* never closed), a change event has arrived since, and nothing is scheduled.
C9_Witness ==
    \E i \in DOMAIN watchers :
        /\ watchers[i].loop = "stopped"
        /\ ~watchers[i].done
        /\ watchers[i].closes = 0
        /\ op = [name |-> "EmitEvent", w |-> i]
        /\ watchers[i].event # NoEvent
        /\ queue = << >>

\* C10: when registering the path fails, the start operation returns the
\* error and leaves no watch loop running for that session.
C10_AddFailureLeavesNoLoop ==
    (op.name \in {"CustomViewsWatcher", "StylesWatcher"} /\ ret.val = "err:add")
        => watchers[op.w].loop # "running"

----------------------------------------------------------------------------
(* Starting the watchers.                                                  *)

StartOps == {"CustomViewsWatcher", "StylesWatcher"}

\* C11: when creating the watcher fails, the start operation returns that
\* error and does nothing else: no session, no loop, no registered path, no
\* refresh, no queued callback; CustomView, Styles, the active skin file and
\* the palette stay as they were.
C11_NewWatcherFailureIsNoOp ==
    [][(op'.name \in StartOps /\ ret'.val = "err:new") => UNCHANGED cfgVars]_vars

\* C11 witness: CustomViewsWatcher returned the creation error on a fresh
\* Configurator: no session exists and the views were never loaded.
C11_Witness ==
    /\ op.name = "CustomViewsWatcher"
    /\ ret.val = "err:new"
    /\ watchers[op.w] = NoWatcher
    /\ CustomView = NilView
    /\ queue = << >>

\* The sessions of a concern whose loop runs on an open adapter.
Live(kind) ==
    {i \in DOMAIN watchers :
        /\ watchers[i].kind = kind
        /\ watchers[i].loop = "running"
        /\ watchers[i].adapter = "open"}

\* C12: there is never more than one live watch session for the views and
\* never more than one for the skin.
C12_OneLiveSessionPerConcern ==
    /\ Cardinality(Live("views")) <= 1
    /\ Cardinality(Live("skin")) <= 1

\* C13: the palette is written by RefreshStyles alone: a step that changes
\* it is a call of RefreshStyles or the synchronizer running a skin callback;
\* HasSkin, RefreshCustomViews, the start operations, the loops, cancellation
\* and error handling leave all eight slots as they are.
C13_OnlyRefreshStylesWritesPalette ==
    [][render' # render =>
          \/ op'.name = "RefreshStyles"
          \/ (op'.name = "UpdateCycle" /\ ret'.val = "skin")]_vars

\* C13 witness: CustomViewsWatcher has started a session and loaded the
\* views while the palette holds the colours of the loaded skin file.
C13_Witness ==
    /\ op.name = "CustomViewsWatcher"
    /\ ret.val = "nil"
    /\ CustomView = <<"loaded", K9sViewConfigFile>>
    /\ skinFile # Empty
    /\ render = PaletteOf(skinFile)

\* C14: StylesWatcher called while HasSkin is false returns no error and
\* changes nothing: no adapter, no loop, no registered path.
C14_NoSkinNoWatcher ==
    [][(op'.name = "StylesWatcher" /\ ~HasSkin(Cfg)) =>
          /\ ret'.val = "nil"
          /\ UNCHANGED cfgVars]_vars

\* C14 witness: StylesWatcher returned nil after a refresh that resolved no
\* skin file, and no session exists.
C14_Witness ==
    /\ op.name = "StylesWatcher"
    /\ ret.val = "nil"
    /\ Refreshed
    /\ skinFile = Empty
    /\ watchers[op.w] = NoWatcher

----------------------------------------------------------------------------
(* Reloading the view configuration.                                       *)

\* A step in which RefreshCustomViews ran: called directly, called by
\* CustomViewsWatcher, or run by the synchronizer as a views callback.
ViewsRefreshStep ==
    \/ op'.name = "RefreshCustomViews"
    \/ (op'.name = "CustomViewsWatcher" /\ ret'.val # "err:new")
    \/ (op'.name = "UpdateCycle" /\ ret'.val = "views")

\* The freshly reset (empty) view configuration.
EmptyView == <<"empty">>

\* C15: when the view configuration file is missing or fails to parse,
\* RefreshCustomViews leaves CustomView freshly reset, with nothing of what
\* it held before, and changes nothing else.
C15_FailedViewLoadLeavesReset ==
    [][(ViewsRefreshStep /\ disk[K9sViewConfigFile] # "ok") =>
          /\ CustomView' = EmptyView
          /\ UNCHANGED <<Styles, BenchFile, skinFile, render, disk>>]_vars

\* C15 witness: a directly called RefreshCustomViews found a file that does
\* not parse and left the empty view configuration.
C15_Witness ==
    /\ op.name = "RefreshCustomViews"
    /\ disk[K9sViewConfigFile] = "parse"
    /\ CustomView = EmptyView

\* C16: RefreshCustomViews is idempotent and its result does not depend on
\* what CustomView held: after it ran, CustomView is what a first call on a
\* nil CustomView yields for the same file, and a further call would leave
\* it as it is.
C16_RefreshViewsIdempotent ==
    [][ViewsRefreshStep =>
          /\ CustomView' = RefreshCustomViews(NilView, disk)
          /\ RefreshCustomViews(CustomView', disk) = CustomView']_vars

\* C16 witness: RefreshCustomViews was called directly while a views session
\* watches the file (so it loaded when the session started) and the file no
\* longer loads.
C16_Witness ==
    /\ op.name = "RefreshCustomViews"
    /\ disk[K9sViewConfigFile] # "ok"
    /\ CustomView = EmptyView
    /\ \E i \in DOMAIN watchers : watchers[i].path = K9sViewConfigFile

----------------------------------------------------------------------------
(* The benchmark file.                                                     *)

\* <home>/<bench-prefix>-<context>.yml, written out token by token.
BenchPathOf(context) == <<"home", "/", "bench", "-">> \o context \o <<".yml">>

\* C17: after every RefreshStyles, whichever candidate it stopped at or
\* whether it fell back to the default, BenchFile is
\* <home>/<bench-prefix>-<context>.yml for the context of that call, and
\* BenchConfig yields that path for that context.
C17_BenchFileFollowsContext ==
    Refreshed =>
        /\ BenchFile = BenchPathOf(lastArgs[1])
        /\ BenchConfig(lastArgs[1]) = BenchPathOf(lastArgs[1])

\* C17 witness: a refresh for context prod stopped early at the manual skin
\* and the benchmark file is the one of prod.
C17_Witness ==
    /\ lastArgs = <<(<<"prod">>), Empty, (<<"neon">>)>>
    /\ skinFile = SkinPath(<<"neon">>, "yml")
    /\ BenchFile = <<"home", "/", "bench", "-", "prod", ".yml">>

----------------------------------------------------------------------------
(* The loops and the watched path.                                         *)

\* C18: a loop step never reloads: on a change event it only takes the
\* event and hands one callback to the synchronizer (the views loop always,
\* the skin loop unless it filters the event out), leaving CustomView,
\* Styles, the skin file, the benchmark file and the palette untouched; the
\* reload happens in the later step in which the synchronizer takes that
\* callback off its queue.
C18_LoopOnlySchedules ==
    [][/\ op'.name \in LoopOps =>
            UNCHANGED <<CustomView, Styles, BenchFile, skinFile, render,
                        loads, lastArgs>>
       /\ op'.name = "ViewsLoopEvent" => queue' = Append(queue, "views")
       /\ op'.name = "StylesLoopEvent" =>
            queue' \in {queue, Append(queue, "skin")}
       /\ op'.name = "UpdateCycle" =>
            /\ queue # << >>
            /\ queue' = Tail(queue)
            /\ ret'.val = Head(queue)]_vars

\* C18 witness: the views loop has queued a callback for a changed file and
\* CustomView still holds what it held before the change.
C18_Witness ==
    /\ op.name = "ViewsLoopEvent"
    /\ queue = <<"views">>
    /\ CustomView # NilView
    /\ CustomView # RefreshCustomViews(CustomView, disk)

\* C19: while a skin session is live, the path it watches is the active
\* skin file recorded by the most recent RefreshStyles.
C19_WatchedPathIsActiveSkin ==
    \A i \in DOMAIN watchers :
        (/\ watchers[i].kind = "skin"
         /\ watchers[i].loop = "running"
         /\ watchers[i].adapter = "open"
         /\ watchers[i].path # Empty)
            => watchers[i].path = skinFile

\* C20: a session whose loop has terminated has released its adapter.
C20_StoppedSessionClosedAdapter ==
    \A i \in DOMAIN watchers :
        watchers[i].loop = "stopped" => watchers[i].adapter = "closed"

====
